---- MODULE Spec2Model ----
(***************************************************************************)
(* Model of src/main.py: a JSON-RPC endpoint that acknowledges `add`       *)
(* submissions, runs each in a background thread (process_add), and        *)
(* offers a per-client server-sent-event stream (generate_sse).            *)
(*                                                                         *)
(* Python values are modelled as follows.  A dict is a function whose      *)
(* domain is its set of keys.  A list is a sequence.  None is the string   *)
(* "None".  Identifiers (client ids, request ids, uuids) are strings.  The *)
(* JSON values of params.a and params.b are tagged records, so that a      *)
(* number and a null can be told apart.                                    *)
(***************************************************************************)
EXTENDS Integers, Sequences, FiniteSets, TLC

(***************************************************************************)
(* Bounds of the model.                                                    *)
(***************************************************************************)
\* POST /jsonrpc requests handled in one behaviour.
MaxRequests == 2
\* GET /events/<client_id> streams opened in one behaviour.
MaxStreams == 1

(***************************************************************************)
(* Python values.                                                          *)
(***************************************************************************)
None == "None"

EmptyDict == [k \in {} |-> None]

\* dict.get(key, default)
DictGetDefault(d, key, default) == IF key \in DOMAIN d THEN d[key] ELSE default

\* dict.get(key)
DictGet(d, key) == DictGetDefault(d, key, None)

\* d[key] = value
DictSet(d, key, value) ==
    [k \in DOMAIN d \cup {key} |-> IF k = key THEN value ELSE d[k]]

\* del d[key]
DictDel(d, key) == [k \in DOMAIN d \ {key} |-> d[k]]

\* `not x` for a dict: None or {} is falsy.
FalsyDict(d) == DOMAIN d = {}

\* `not x` for a string or None.
FalsyStr(x) == x = None \/ x = ""

JNum(n) == [type |-> "number", val |-> n]

JNull == [type |-> "null", val |-> 0]

\* a + b on JSON values raises TypeError unless both are numbers.
CanAdd(a, b) == a.type = "number" /\ b.type = "number"

PyAdd(a, b) == JNum(a.val + b.val)

(***************************************************************************)
(* Inputs.                                                                 *)
(***************************************************************************)
Clients == {"c1", "c2"}

ReqIds == {"id1", "id2"}

\* Names for the values of uuid4, the threads and the generators.
UUIDName == <<"u1", "u2", "u3", "u4">>

ThreadName == <<"t1", "t2", "t3", "t4">>

StreamName == <<"s1", "s2", "s3", "s4">>

ParamsOk == [a |-> JNum(1), b |-> JNum(2)]

\* a and b present, but b is null: a + b raises TypeError.
ParamsNull == [a |-> JNum(1), b |-> JNull]

\* params objects: no key, only a, only b, both numbers, b null.
ParamsSet == {EmptyDict, [a |-> JNum(1)], [b |-> JNum(2)], ParamsOk, ParamsNull}

\* The dicts that either lack `name` or map it to one of `values`.
Field(name, values) == {EmptyDict} \cup {name :> v : v \in values}

\* JSON bodies: jsonrpc absent, wrong or right; three methods; params absent
\* or one of ParamsSet; and the empty object.
Bodies ==
    { j @@ m @@ i @@ p :
        j \in Field("jsonrpc", {"1.0", "2.0"}),
        m \in {"method" :> x : x \in {"mcp_discover", "add", "sub"}},
        i \in {"id" :> x : x \in ReqIds},
        p \in Field("params", ParamsSet) } \cup {EmptyDict}

HeaderSet == Field("X-Client-ID", Clients)

\* Every request SpecRPC sends to POST /jsonrpc.
Requests == [headers : HeaderSet, json : Bodies]

\* The requests Spec sends: `add` submissions that pass every check.
AddRequests ==
    { [headers |-> "X-Client-ID" :> c,
       json |-> [jsonrpc |-> "2.0", method |-> "add", id |-> i, params |-> p]] :
        c \in Clients, i \in ReqIds, p \in {ParamsOk, ParamsNull} }

VARIABLES
    pending_requests,   \* dict: request_id -> client_id            (line 12)
    subscriptions,      \* dict: client_id -> list of (type, data)  (line 13)
    subscription_lock,  \* "free" or the name of the holding thread (line 14)
    threads,            \* process_add threads, in order of start
    streams,            \* generate_sse generators, in order of opening
    last,               \* the latest POST /jsonrpc request and its response
    handled             \* number of POST /jsonrpc requests handled

vars == <<pending_requests, subscriptions, subscription_lock, threads, streams,
          last, handled>>

\* Before the first request: an empty request and an empty response.
NoExchange ==
    [request |-> [headers |-> EmptyDict, json |-> EmptyDict],
     response |-> [status |-> 0, body |-> EmptyDict]]

\* init_subscriptions() at import: both registries empty, nothing running.
Init ==
    /\ pending_requests = EmptyDict
    /\ subscriptions = EmptyDict
    /\ subscription_lock = "free"
    /\ threads = <<>>
    /\ streams = <<>>
    /\ last = NoExchange
    /\ handled = 0

(***************************************************************************)
(* POST /jsonrpc: jsonrpc_endpoint (lines 60-145).                         *)
(***************************************************************************)
ErrorBody(code, message, id) ==
    [jsonrpc |-> "2.0", error |-> [code |-> code, message |-> message], id |-> id]

\* The static method list of mcp_discover (lines 90-104).
Methods ==
    << [name |-> "mcp_discover", description |-> "List available methods",
        parameters |-> <<>>],
       [name |-> "add", description |-> "Add two numbers",
        parameters |-> << [name |-> "a", type |-> "number"],
                          [name |-> "b", type |-> "number"] >>] >>

\* InvalidEnvelope that does not compare the version: a faulty variant.
InvalidEnvelopeAnyVersion(data) ==
    FalsyDict(data) \/ "jsonrpc" \notin DOMAIN data

\* Line 65: the envelope check.
InvalidEnvelope(data) ==
    FalsyDict(data) \/ "jsonrpc" \notin DOMAIN data \/ data["jsonrpc"] # "2.0"

\* MissingClientId demanding the header of every method: a faulty variant.
MissingClientIdAlways(method, client_id) == FalsyStr(client_id)

\* MissingClientId demanding the header of `add` only: a faulty variant.
MissingClientIdAddOnly(method, client_id) ==
    method = "add" /\ FalsyStr(client_id)

\* Line 77: the client id check.
MissingClientId(method, client_id) ==
    method # "mcp_discover" /\ FalsyStr(client_id)

\* InvalidParams that does not look for b: a faulty variant.
InvalidParamsOnlyA(params) == "a" \notin DOMAIN params

\* Line 111: the parameter check of `add`.
InvalidParams(params) == "a" \notin DOMAIN params \/ "b" \notin DOMAIN params

\* Route with `else` in place of `elif method == 'add'`: a faulty variant.
RouteElseAdd(req) ==
    LET data == req.json
        method == DictGet(data, "method")
        client_id == DictGet(req.headers, "X-Client-ID")
        params == DictGetDefault(data, "params", EmptyDict)
    IN  IF InvalidEnvelope(data) THEN "invalid_request"
        ELSE IF MissingClientId(method, client_id) THEN "missing_client_id"
        ELSE IF method = "mcp_discover" THEN "discover"
        ELSE IF InvalidParams(params) THEN "invalid_params" ELSE "accept"

\* The return statement jsonrpc_endpoint reaches for a request, following the
\* order of its checks.
Route(req) ==
    LET data == req.json
        method == DictGet(data, "method")
        client_id == DictGet(req.headers, "X-Client-ID")
        params == DictGetDefault(data, "params", EmptyDict)
    IN  IF InvalidEnvelope(data) THEN "invalid_request"
        ELSE IF MissingClientId(method, client_id) THEN "missing_client_id"
        ELSE IF method = "mcp_discover" THEN "discover"
        ELSE IF method = "add"
             THEN IF InvalidParams(params) THEN "invalid_params" ELSE "accept"
        ELSE "method_not_found"

\* AckBody with the client's id returned as the tracking id: a faulty variant.
AckBodyEchoId(req_id, request_id) ==
    [jsonrpc |-> "2.0", id |-> req_id,
     result |-> [status |-> "pending", requestId |-> req_id]]

\* The acknowledgment of an accepted `add` (lines 131-138).
AckBody(req_id, request_id) ==
    [jsonrpc |-> "2.0", id |-> req_id,
     result |-> [status |-> "pending", requestId |-> request_id]]

\* The (status, body) jsonrpc_endpoint returns; request_id is the uuid
\* generated at line 119, used by the accepting branch only.
Response(req, request_id) ==
    LET route == Route(req)
        req_id == DictGet(req.json, "id")
    IN  CASE route = "invalid_request" ->
               [status |-> 400,
                body |-> ErrorBody(-32600, "Invalid Request", None)]
          [] route = "missing_client_id" ->
               [status |-> 400,
                body |-> ErrorBody(-32600, "Missing X-Client-ID header", req_id)]
          [] route = "discover" ->
               [status |-> 200,
                body |-> [jsonrpc |-> "2.0", id |-> req_id,
                          result |-> [methods |-> Methods]]]
          [] route = "invalid_params" ->
               [status |-> 400,
                body |-> ErrorBody(-32602, "Invalid parameters", req_id)]
          [] route = "accept" ->
               [status |-> 200, body |-> AckBody(req_id, request_id)]
          [] route = "method_not_found" ->
               [status |-> 404,
                body |-> ErrorBody(-32601, "Method not found", req_id)]

\* str(uuid.uuid4()) at line 119.  uuid4 is taken to return a value that no
\* earlier call returned: the next unused name.
uuid4 == {UUIDName[Len(threads) + 1]}

\* Whether a generator of client_id has passed its registry lookup.
StreamOpen(client_id) ==
    \E s \in DOMAIN streams :
        streams[s].client_id = client_id /\ streams[s].pc \in {"loop", "pop", "sleep"}

\* NewThread with request_id and client_id swapped in args: a faulty variant.
NewThreadSwapped(request_id, params, client_id) ==
    [request_id |-> client_id, params |-> params, client_id |-> request_id,
     pc |-> "sleep", result |-> JNull, notified |-> 0, order |-> 0,
     subscribed |-> StreamOpen(client_id)]

\* threading.Thread(target=process_add, args=(request_id, params, client_id))
\* (lines 123-126).  `subscribed` and `order` are history: whether a stream
\* of the client was open when the job was submitted, and the rank of the
\* thread's call of notify_client among all such calls (0 before the call).
NewThread(request_id, params, client_id) ==
    [request_id |-> request_id, params |-> params, client_id |-> client_id,
     pc |-> "sleep", result |-> JNull, notified |-> 0, order |-> 0,
     subscribed |-> StreamOpen(client_id)]

\* One request, from line 63 to its return.  The accepting branch writes
\* pending_requests[request_id] without taking subscription_lock (line 120),
\* starts the thread (lines 123-128) and returns the acknowledgment; no other
\* thread reads or writes that key before the new thread runs, so the branch
\* is one step.
jsonrpc_endpoint(req) ==
    /\ handled' = handled + 1
    /\ IF Route(req) = "accept"
       THEN \E request_id \in uuid4 :
              LET client_id == DictGet(req.headers, "X-Client-ID")
                  params == DictGetDefault(req.json, "params", EmptyDict)
              IN  /\ pending_requests' =
                        DictSet(pending_requests, request_id, client_id)
                  /\ threads' =
                        Append(threads, NewThread(request_id, params, client_id))
                  /\ last' = [request |-> req,
                              response |-> Response(req, request_id)]
       ELSE /\ last' = [request |-> req, response |-> Response(req, None)]
            /\ UNCHANGED <<pending_requests, threads>>
    /\ UNCHANGED <<subscriptions, subscription_lock, streams>>

(***************************************************************************)
(* The background thread: process_add (lines 41-58) and notify_client      *)
(* (lines 35-39).                                                          *)
(***************************************************************************)
\* Lines 43-44: sleep, then result = params['a'] + params['b'].  A missing
\* key or a value that cannot be added raises, and the exception ends the
\* thread.
process_add_compute(t) ==
    /\ threads[t].pc = "sleep"
    /\ LET params == threads[t].params
       IN  IF /\ "a" \in DOMAIN params
              /\ "b" \in DOMAIN params
              /\ CanAdd(params["a"], params["b"])
           THEN threads' = [threads EXCEPT
                              ![t].result = PyAdd(params["a"], params["b"]),
                              ![t].pc = "notify"]
           ELSE threads' = [threads EXCEPT ![t].pc = "raised"]
    /\ UNCHANGED <<pending_requests, subscriptions, subscription_lock, streams,
                   last, handled>>

\* ResultEvent with the id left out of the payload: a faulty variant.
ResultEventNoId(request_id, result) ==
    <<"result", [jsonrpc |-> "2.0", id |-> None, result |-> result]>>

\* The event process_add passes to notify_client (lines 46-54).
ResultEvent(request_id, result) ==
    <<"result", [jsonrpc |-> "2.0", id |-> request_id, result |-> result]>>

\* `with subscription_lock:` entered at line 37 (pc notify) or 56 (pc cleanup).
process_add_acquire(t) ==
    /\ threads[t].pc \in {"notify", "cleanup"}
    /\ subscription_lock = "free"
    /\ subscription_lock' = ThreadName[t]
    /\ threads' = [threads EXCEPT
                     ![t].pc = IF @ = "notify" THEN "notify_locked"
                                               ELSE "cleanup_locked"]
    /\ UNCHANGED <<pending_requests, subscriptions, streams, last, handled>>

\* Lines 38-39: append when the client is known, else nothing.
\* Enqueue that creates the queue of an unknown client: a faulty variant.
EnqueueCreate(subs, client_id, event) ==
    IF client_id \in DOMAIN subs
    THEN [subs EXCEPT ![client_id] = Append(@, event)]
    ELSE DictSet(subs, client_id, <<event>>)

Enqueue(subs, client_id, event) ==
    IF client_id \in DOMAIN subs
    THEN [subs EXCEPT ![client_id] = Append(@, event)]
    ELSE subs

\* The body of notify_client and the release of the lock.
notify_client(t) ==
    /\ threads[t].pc = "notify_locked"
    /\ subscription_lock = ThreadName[t]
    /\ subscriptions' =
          Enqueue(subscriptions, threads[t].client_id,
                  ResultEvent(threads[t].request_id, threads[t].result))
    /\ subscription_lock' = "free"
    /\ threads' = [threads EXCEPT ![t].pc = "cleanup",
                                  ![t].notified = @ + 1,
                                  ![t].order = 1 + Cardinality(
                                      {u \in DOMAIN threads :
                                           threads[u].order > 0})]
    /\ UNCHANGED <<pending_requests, streams, last, handled>>

\* Lines 57-58: delete the record when present.
Remove(pending, request_id) ==
    IF request_id \in DOMAIN pending THEN DictDel(pending, request_id)
    ELSE pending

\* Lines 56-58 and the end of the thread.
process_add_cleanup(t) ==
    /\ threads[t].pc = "cleanup_locked"
    /\ subscription_lock = ThreadName[t]
    /\ pending_requests' = Remove(pending_requests, threads[t].request_id)
    /\ subscription_lock' = "free"
    /\ threads' = [threads EXCEPT ![t].pc = "done"]
    /\ UNCHANGED <<subscriptions, streams, last, handled>>

(***************************************************************************)
(* GET /events/<client_id>: sse_endpoint (lines 27-33) and generate_sse    *)
(* (lines 16-25).                                                          *)
(*                                                                         *)
(* The generator's local `queue` is either the very list stored in         *)
(* subscriptions[client_id] (shared = TRUE) or the fresh list that         *)
(* subscriptions.get(client_id, []) made (shared = FALSE, held in `own`).  *)
(* `connected` is the client's end of the connection: the server learns    *)
(* that it is gone only when it writes a yielded frame, which closes the   *)
(* generator.                                                              *)
(***************************************************************************)
sse_endpoint(client_id) ==
    /\ Len(streams) < MaxStreams
    /\ streams' = Append(streams,
                         [client_id |-> client_id, pc |-> "start",
                          shared |-> FALSE, own |-> <<>>, out |-> <<>>,
                          connected |-> TRUE])
    /\ UNCHANGED <<pending_requests, subscriptions, subscription_lock, threads,
                   last, handled>>

\* `with subscription_lock:` entered at line 18.
generate_sse_acquire(s) ==
    /\ streams[s].pc = "start"
    /\ subscription_lock = "free"
    /\ subscription_lock' = StreamName[s]
    /\ streams' = [streams EXCEPT ![s].pc = "locked"]
    /\ UNCHANGED <<pending_requests, subscriptions, threads, last, handled>>

\* Whether subscriptions.get(client_id, []) returns the registry's own list.
GetShared(subs, client_id) == client_id \in DOMAIN subs

\* Line 19 and the release of the lock.
generate_sse_get(s) ==
    /\ streams[s].pc = "locked"
    /\ subscription_lock = StreamName[s]
    /\ streams' = [streams EXCEPT
                     ![s].shared = GetShared(subscriptions, streams[s].client_id),
                     ![s].own = <<>>,
                     ![s].pc = "loop"]
    /\ subscription_lock' = "free"
    /\ UNCHANGED <<pending_requests, subscriptions, threads, last, handled>>

\* The list the generator's `queue` names.
Queue(s) ==
    IF streams[s].shared THEN subscriptions[streams[s].client_id]
    ELSE streams[s].own

\* The text yielded at line 23, as its two parts.
SSEFrame(event) == [event |-> event[1], data |-> event[2]]

\* Lines 21-25, taken without the lock.  At pc "loop" the test `if queue:`
\* (line 21); at pc "pop" queue.pop(0) and the yield (lines 22-23).  pop(0)
\* on a list found empty raises IndexError, which ends the generator.  The
\* frame of a client that is gone cannot be written, and the generator is
\* closed.
generate_sse_poll(s) ==
    /\ streams[s].pc \in {"loop", "pop"}
    /\ IF streams[s].pc = "loop"
       THEN /\ streams' = [streams EXCEPT
                             ![s].pc = IF Queue(s) # <<>> THEN "pop"
                                                          ELSE "sleep"]
            /\ UNCHANGED subscriptions
       ELSE IF Queue(s) = <<>>
       THEN /\ streams' = [streams EXCEPT ![s].pc = "raised"]
            /\ UNCHANGED subscriptions
       ELSE /\ streams' = [streams EXCEPT
                             ![s].out = IF streams[s].connected
                                        THEN Append(@, SSEFrame(Head(Queue(s))))
                                        ELSE @,
                             ![s].own = IF streams[s].shared THEN @
                                        ELSE Tail(@),
                             ![s].pc = IF streams[s].connected THEN "loop"
                                                               ELSE "closed"]
            /\ subscriptions' =
                  IF streams[s].shared
                  THEN [subscriptions EXCEPT ![streams[s].client_id] = Tail(@)]
                  ELSE subscriptions
    /\ UNCHANGED <<pending_requests, subscription_lock, threads, last, handled>>

\* time.sleep(0.1) returns (line 25).
generate_sse_wake(s) ==
    /\ streams[s].pc = "sleep"
    /\ streams' = [streams EXCEPT ![s].pc = "loop"]
    /\ UNCHANGED <<pending_requests, subscriptions, subscription_lock, threads,
                   last, handled>>

\* The client of generator s closes its connection.
disconnect(s) ==
    /\ streams[s].connected
    /\ streams' = [streams EXCEPT ![s].connected = FALSE]
    /\ UNCHANGED <<pending_requests, subscriptions, subscription_lock, threads,
                   last, handled>>

(***************************************************************************)
(* Specifications.                                                         *)
(***************************************************************************)
Background ==
    \/ \E t \in DOMAIN threads : process_add_compute(t)
    \/ \E t \in DOMAIN threads : process_add_acquire(t)
    \/ \E t \in DOMAIN threads : notify_client(t)
    \/ \E t \in DOMAIN threads : process_add_cleanup(t)

Streaming ==
    \/ \E c \in Clients : sse_endpoint(c)
    \/ \E s \in DOMAIN streams : generate_sse_acquire(s)
    \/ \E s \in DOMAIN streams : generate_sse_get(s)
    \/ \E s \in DOMAIN streams : generate_sse_poll(s)
    \/ \E s \in DOMAIN streams : generate_sse_wake(s)

\* Submissions that are accepted, the threads they start, and the streams.
Next ==
    \/ handled < MaxRequests /\ \E req \in AddRequests : jsonrpc_endpoint(req)
    \/ Background
    \/ Streaming

Spec == Init /\ [][Next]_vars

\* Every request of Requests, and the threads the accepted ones start.
NextRPC ==
    \/ handled < MaxRequests /\ \E req \in Requests : jsonrpc_endpoint(req)
    \/ Background

SpecRPC == Init /\ [][NextRPC]_vars

\* Spec with clients that may close their event stream at any time.
NextSSE ==
    \/ Next
    \/ \E s \in DOMAIN streams : disconnect(s)

\* The steps of one process_add thread, and of one generator.
ThreadStep(t) ==
    /\ t \in DOMAIN threads
    /\ \/ process_add_compute(t)
       \/ process_add_acquire(t)
       \/ notify_client(t)
       \/ process_add_cleanup(t)

GeneratorStep(s) ==
    /\ s \in DOMAIN streams
    /\ \/ generate_sse_acquire(s)
       \/ generate_sse_get(s)
       \/ generate_sse_poll(s)
       \/ generate_sse_wake(s)

\* Every started thread and every running generator keeps being scheduled;
\* nothing obliges a client to send a request or to disconnect.
SpecSSE ==
    /\ Init /\ [][NextSSE]_vars
    /\ \A t \in 1..MaxRequests : WF_vars(ThreadStep(t))
    /\ \A s \in 1..MaxStreams : WF_vars(GeneratorStep(s))

(***************************************************************************)
(* Shared vocabulary of the properties.                                    *)
(***************************************************************************)
\* The latest request was an accepted `add`; its thread is the newest one.
LastAccepted == handled > 0 /\ "result" \in DOMAIN last.response.body
                            /\ last.request.json["method"] = "add"

Newest == threads[Len(threads)]

\* Positions of process_add at which the result event has been built.
BuiltPcs == {"notify", "notify_locked", "cleanup", "cleanup_locked", "done"}

\* Positions at which process_add has ended, normally or by an exception.
EndedPcs == {"done", "raised"}

\* The event thread t passes to notify_client.
EventOf(t) == ResultEvent(threads[t].request_id, threads[t].result)

\* Result events of a job among the frames generator s has emitted, and
\* among the events waiting in its queue.
Emitted(s, request_id) ==
    {i \in DOMAIN streams[s].out :
        /\ streams[s].out[i].event = "result"
        /\ streams[s].out[i].data.id = request_id}

Waiting(s, request_id) ==
    {i \in DOMAIN Queue(s) :
        Queue(s)[i][1] = "result" /\ Queue(s)[i][2].id = request_id}

(***************************************************************************)
(* C1.  A job submitted while a stream of its client is open yields        *)
(* exactly one result event on that stream, carrying a + b.  Stated on the *)
(* state after the job's thread has ended normally: only that thread       *)
(* enqueues the job's event, so by then the event has been emitted or is   *)
(* waiting in the stream's queue, exactly once, with result a + b.         *)
(***************************************************************************)
C1_ResultReachesSubscriber ==
    \A t \in DOMAIN threads :
        (threads[t].subscribed /\ threads[t].pc = "done") =>
            \E s \in DOMAIN streams :
                /\ streams[s].client_id = threads[t].client_id
                /\ Cardinality(Emitted(s, threads[t].request_id))
                     + Cardinality(Waiting(s, threads[t].request_id)) = 1
                /\ \A i \in Emitted(s, threads[t].request_id) :
                      streams[s].out[i].data.result =
                          JNum(threads[t].params["a"].val + threads[t].params["b"].val)
                /\ \A i \in Waiting(s, threads[t].request_id) :
                      Queue(s)[i][2].result =
                          JNum(threads[t].params["a"].val + threads[t].params["b"].val)

(***************************************************************************)
(* C2.  As claimed: the id of the result event built for a job is the id   *)
(* the client put in the request that submitted the job.                   *)
(***************************************************************************)
C2_EventIdIsClientId ==
    (LastAccepted /\ Newest.pc \in BuiltPcs) =>
        EventOf(Len(threads))[2].id = last.request.json["id"]

\* C2, amended: the id of the result event built for a job is the tracking
\* identifier generated for the job, the requestId of its acknowledgment.
C2_EventIdIsTrackingId ==
    (LastAccepted /\ Newest.pc \in BuiltPcs) =>
        EventOf(Len(threads))[2].id = last.response.body.result.requestId

\* C2 witness: the thread of the latest submission is inside notify_client.
C2_Witness == LastAccepted /\ Newest.pc = "notify_locked"

(***************************************************************************)
(* C3.  Once a generator has passed its lookup, the registry holds a queue *)
(* for its client id, the generator's queue is that very list, and an      *)
(* enqueue for the client changes the registry.                            *)
(***************************************************************************)
C3_OpenStreamRegisters ==
    \A s \in DOMAIN streams :
        streams[s].pc \in {"loop", "pop", "sleep"} =>
            /\ streams[s].client_id \in DOMAIN subscriptions
            /\ streams[s].shared
            /\ Enqueue(subscriptions, streams[s].client_id,
                       ResultEvent(UUIDName[1], JNum(0))) # subscriptions

(***************************************************************************)
(* C4.  A job's result event goes to the channel of the submitting client  *)
(* only: the thread started for a submission targets the client id of the  *)
(* submission's X-Client-ID header, which is the owner the registry        *)
(* records; and an event found in a client's queue, or emitted by a        *)
(* generator of a client, belongs to a job of that client.                 *)
(***************************************************************************)
OwnerOf(request_id) ==
    {threads[t].client_id : t \in {u \in DOMAIN threads :
                                        threads[u].request_id = request_id}}

C4_OwnChannelOnly ==
    /\ LastAccepted => Newest.client_id = last.request.headers["X-Client-ID"]
    /\ \A t \in DOMAIN threads :
          threads[t].request_id \in DOMAIN pending_requests =>
              pending_requests[threads[t].request_id] = threads[t].client_id
    /\ \A c \in DOMAIN subscriptions : \A i \in DOMAIN subscriptions[c] :
          OwnerOf(subscriptions[c][i][2].id) = {c}
    /\ \A s \in DOMAIN streams :
          /\ \A i \in DOMAIN streams[s].out :
                OwnerOf(streams[s].out[i].data.id) = {streams[s].client_id}
          /\ \A i \in DOMAIN Queue(s) :
                OwnerOf(Queue(s)[i][2].id) = {streams[s].client_id}

\* C4 witness: jobs of two different clients have both gone through
\* notify_client.
C4_Witness ==
    /\ Len(threads) >= 2
    /\ threads[1].client_id # threads[2].client_id
    /\ threads[1].notified = 1
    /\ threads[2].notified = 1

(***************************************************************************)
(* C5.  As claimed: a valid `add` is answered with a success envelope      *)
(* whose result is exactly {status: "pending", jobId}, with a jobId that   *)
(* no earlier accepted submission was given.                               *)
(***************************************************************************)
\* A valid `add`: right envelope, X-Client-ID present, params with a and b.
ValidAdd(req) ==
    /\ "jsonrpc" \in DOMAIN req.json /\ req.json["jsonrpc"] = "2.0"
    /\ "method" \in DOMAIN req.json /\ req.json["method"] = "add"
    /\ "X-Client-ID" \in DOMAIN req.headers
    /\ "params" \in DOMAIN req.json
    /\ {"a", "b"} \subseteq DOMAIN req.json["params"]

C5_AckIsPendingJobId ==
    (handled > 0 /\ ValidAdd(last.request)) =>
        /\ last.response.status = 200
        /\ last.response.body =
              [jsonrpc |-> "2.0", id |-> DictGet(last.request.json, "id"),
               result |-> [status |-> "pending", jobId |-> Newest.request_id]]
        /\ \A i \in 1..(Len(threads) - 1) :
              threads[i].request_id # Newest.request_id

\* C5, amended: the result is exactly {status: "pending", requestId}, with a
\* requestId that no earlier accepted submission was given.
C5_AckIsPendingRequestId ==
    (handled > 0 /\ ValidAdd(last.request)) =>
        /\ last.response.status = 200
        /\ last.response.body =
              [jsonrpc |-> "2.0", id |-> DictGet(last.request.json, "id"),
               result |-> [status |-> "pending",
                           requestId |-> Newest.request_id]]
        /\ \A i \in 1..(Len(threads) - 1) :
              threads[i].request_id # Newest.request_id

\* C5 witness: a second valid `add` has been acknowledged.
C5_Witness ==
    handled > 0 /\ ValidAdd(last.request) /\ Len(threads) = 2

(***************************************************************************)
(* C6.  A job whose thread has finished has no record in the registry;     *)
(* once every started thread has ended, and no further submission comes,   *)
(* the registry is empty; and removing an absent id changes nothing.       *)
(***************************************************************************)
C6_RegistryDrains ==
    /\ \A t \in DOMAIN threads :
          threads[t].pc = "done" =>
              threads[t].request_id \notin DOMAIN pending_requests
    /\ (\A t \in DOMAIN threads : threads[t].pc \in EndedPcs) =>
          pending_requests = EmptyDict
    /\ \A i \in DOMAIN UUIDName :
          UUIDName[i] \notin DOMAIN pending_requests =>
              Remove(pending_requests, UUIDName[i]) = pending_requests

(***************************************************************************)
(* C7.  The record of a job is removed on every outcome: a thread whose    *)
(* computation failed leaves no record behind.  The record is removed by   *)
(* the job's own thread only, so it must be gone when that thread ends.    *)
(***************************************************************************)
C7_RemovedOnFailure ==
    \A t \in DOMAIN threads :
        threads[t].pc = "raised" =>
            threads[t].request_id \notin DOMAIN pending_requests

(***************************************************************************)
(* C8.  Every run of the executor passes exactly one terminal event to     *)
(* notify_client, a result or an error description: a thread that has      *)
(* ended, normally or by a failed computation, has done so once.           *)
(***************************************************************************)
C8_OneTerminalEvent ==
    \A t \in DOMAIN threads :
        threads[t].pc \in EndedPcs => threads[t].notified = 1

(***************************************************************************)
(* C9.  A request answered with an error envelope changes neither registry *)
(* and starts no thread; and `add` without a or without b, otherwise       *)
(* valid, is answered 400 with code -32602.                                *)
(***************************************************************************)
IsError(response) == "error" \in DOMAIN response.body

\* `add` with the right envelope and a client id, whose params lack a or b.
AddMissingParam(req) ==
    /\ "jsonrpc" \in DOMAIN req.json /\ req.json["jsonrpc"] = "2.0"
    /\ "method" \in DOMAIN req.json /\ req.json["method"] = "add"
    /\ "X-Client-ID" \in DOMAIN req.headers
    /\ \/ "params" \notin DOMAIN req.json
       \/ ~({"a", "b"} \subseteq DOMAIN req.json["params"])

C9_ErrorsHaveNoSideEffect ==
    /\ [][(handled' = handled + 1 /\ IsError(last'.response)) =>
              /\ pending_requests' = pending_requests
              /\ subscriptions' = subscriptions
              /\ threads' = threads]_vars
    /\ []((handled > 0 /\ AddMissingParam(last.request)) =>
              /\ last.response.status = 400
              /\ IsError(last.response)
              /\ last.response.body.error.code = -32602
              /\ last.response.body.id = DictGet(last.request.json, "id"))

\* C9 witness: with a job in flight, `add` without b was answered -32602.
C9_Witness ==
    /\ handled > 0
    /\ AddMissingParam(last.request)
    /\ "params" \in DOMAIN last.request.json
    /\ DOMAIN last.request.json["params"] = {"a"}
    /\ IsError(last.response)
    /\ last.response.body.error.code = -32602
    /\ DOMAIN pending_requests # {}
    /\ \E t \in DOMAIN threads : threads[t].pc = "sleep"

(***************************************************************************)
(* C10.  A request with the right envelope, a method other than            *)
(* mcp_discover and no X-Client-ID header is answered 400 with code        *)
(* -32600 and the missing-header message, whatever its method and params.  *)
(***************************************************************************)
NoClientId(req) ==
    /\ "jsonrpc" \in DOMAIN req.json /\ req.json["jsonrpc"] = "2.0"
    /\ DictGet(req.json, "method") # "mcp_discover"
    /\ "X-Client-ID" \notin DOMAIN req.headers

C10_MissingClientIdFirst ==
    (handled > 0 /\ NoClientId(last.request)) =>
        last.response =
            [status |-> 400,
             body |-> [jsonrpc |-> "2.0",
                       error |-> [code |-> -32600,
                                  message |-> "Missing X-Client-ID header"],
                       id |-> DictGet(last.request.json, "id")]]

\* C10 witness: `add` lacking both the header and b got the missing-header
\* error, not the invalid-parameters one.
C10_Witness ==
    /\ handled > 0
    /\ NoClientId(last.request)
    /\ last.request.json["method"] = "add"
    /\ "params" \in DOMAIN last.request.json
    /\ DOMAIN last.request.json["params"] = {"a"}
    /\ IsError(last.response)
    /\ last.response.body.error.code = -32600

(***************************************************************************)
(* C11.  A request whose body lacks jsonrpc, or carries a jsonrpc other    *)
(* than "2.0", is answered 400 with code -32600 "Invalid Request" and a    *)
(* null id, whatever its method, header and params.                        *)
(***************************************************************************)
BadEnvelope(req) ==
    "jsonrpc" \notin DOMAIN req.json \/ req.json["jsonrpc"] # "2.0"

C11_InvalidEnvelopeFirst ==
    (handled > 0 /\ BadEnvelope(last.request)) =>
        last.response =
            [status |-> 400,
             body |-> [jsonrpc |-> "2.0",
                       error |-> [code |-> -32600,
                                  message |-> "Invalid Request"],
                       id |-> None]]

\* C11 witness: an `add` that only its version "1.0" keeps from being
\* accepted got the invalid-request error.
C11_Witness ==
    /\ handled > 0
    /\ "jsonrpc" \in DOMAIN last.request.json
    /\ last.request.json["jsonrpc"] = "1.0"
    /\ last.request.json["method"] = "add"
    /\ "X-Client-ID" \in DOMAIN last.request.headers
    /\ "params" \in DOMAIN last.request.json
    /\ last.request.json["params"] = ParamsOk
    /\ IsError(last.response)
    /\ last.response.body.error.message = "Invalid Request"

(***************************************************************************)
(* C12.  mcp_discover with the right envelope is answered 200 with the     *)
(* same method list in every state, with or without X-Client-ID, and the   *)
(* step changes neither registry and starts no thread.                     *)
(***************************************************************************)
Discover(req) ==
    /\ "jsonrpc" \in DOMAIN req.json /\ req.json["jsonrpc"] = "2.0"
    /\ "method" \in DOMAIN req.json /\ req.json["method"] = "mcp_discover"

C12_DiscoverIsStatic ==
    /\ [][(handled' = handled + 1 /\ Discover(last'.request)) =>
              /\ pending_requests' = pending_requests
              /\ subscriptions' = subscriptions
              /\ threads' = threads]_vars
    /\ []((handled > 0 /\ Discover(last.request)) =>
              last.response =
                  [status |-> 200,
                   body |->
                     [jsonrpc |-> "2.0",
                      id |-> DictGet(last.request.json, "id"),
                      result |->
                        [methods |->
                           << [name |-> "mcp_discover",
                               description |-> "List available methods",
                               parameters |-> <<>>],
                              [name |-> "add",
                               description |-> "Add two numbers",
                               parameters |->
                                 << [name |-> "a", type |-> "number"],
                                    [name |-> "b", type |-> "number"] >>] >>]]])

\* C12 witness: mcp_discover without the header was answered 200 while a job
\* was in flight.
C12_Witness ==
    /\ handled > 0
    /\ Discover(last.request)
    /\ "X-Client-ID" \notin DOMAIN last.request.headers
    /\ last.response.status = 200
    /\ DOMAIN pending_requests # {}

(***************************************************************************)
(* C13.  A request with the right envelope and an X-Client-ID header whose *)
(* method is neither mcp_discover nor add is answered 404 with code        *)
(* -32601, which is neither -32600 nor -32602.                             *)
(***************************************************************************)
UnknownMethod(req) ==
    /\ "jsonrpc" \in DOMAIN req.json /\ req.json["jsonrpc"] = "2.0"
    /\ "X-Client-ID" \in DOMAIN req.headers
    /\ DictGet(req.json, "method") \notin {"mcp_discover", "add"}

C13_MethodNotFound ==
    (handled > 0 /\ UnknownMethod(last.request)) =>
        /\ last.response =
              [status |-> 404,
               body |-> [jsonrpc |-> "2.0",
                         error |-> [code |-> -32601,
                                    message |-> "Method not found"],
                         id |-> DictGet(last.request.json, "id")]]
        /\ last.response.body.error.code \notin {-32600, -32602}

\* C13 witness: method "sub" with the header and valid params got -32601.
C13_Witness ==
    /\ handled > 0
    /\ UnknownMethod(last.request)
    /\ "params" \in DOMAIN last.request.json
    /\ last.request.json["params"] = ParamsOk
    /\ IsError(last.response)
    /\ last.response.body.error.code = -32601


(***************************************************************************)
(* C14.  The events of one client leave its stream in the order they were  *)
(* enqueued, none twice and none skipped.  Stated on the state: the frames *)
(* a stream has emitted followed by the events waiting in its queue hold   *)
(* the event of every thread of the client that has called notify_client   *)
(* while a stream of the client was open, once each and in the order of    *)
(* the calls.                                                              *)
(***************************************************************************)
Delivered(s) ==
    [i \in 1..(Len(streams[s].out) + Len(Queue(s))) |->
        IF i <= Len(streams[s].out)
        THEN streams[s].out[i].data.id
        ELSE Queue(s)[i - Len(streams[s].out)][2].id]

Positions(s, request_id) ==
    {i \in DOMAIN Delivered(s) : Delivered(s)[i] = request_id}

Enqueued(c) ==
    {t \in DOMAIN threads :
        /\ threads[t].client_id = c
        /\ threads[t].subscribed
        /\ threads[t].order > 0}

C14_FifoNoLossNoDuplicate ==
    \A t \in DOMAIN threads :
        t \in Enqueued(threads[t].client_id) =>
            \E s \in DOMAIN streams :
                /\ streams[s].client_id = threads[t].client_id
                /\ Cardinality(Positions(s, threads[t].request_id)) = 1
                /\ \A u \in Enqueued(threads[t].client_id) :
                      threads[t].order < threads[u].order =>
                          \A i \in Positions(s, threads[t].request_id) :
                              \A j \in Positions(s, threads[u].request_id) :
                                  i < j

(***************************************************************************)
(* C15.  Every step that changes pending_requests or subscriptions is      *)
(* taken by the holder of subscription_lock: a process_add thread or a     *)
(* generator that holds the lock and moves in that step.                   *)
(***************************************************************************)
HolderMoves ==
    \/ \E t \in DOMAIN threads :
          subscription_lock = ThreadName[t] /\ threads'[t] # threads[t]
    \/ \E s \in DOMAIN streams :
          subscription_lock = StreamName[s] /\ streams'[s] # streams[s]

C15_MutationsUnderLock ==
    [][(pending_requests' # pending_requests \/ subscriptions' # subscriptions)
          => HolderMoves]_vars

(***************************************************************************)
(* C16.  The drain step of a generator, the test `if queue:` and           *)
(* queue.pop(0), is taken inside one critical section of subscription_lock:*)
(* every step a generator takes from its test or from its pop is taken     *)
(* while it holds the lock, and the lock is not released between the two.  *)
(***************************************************************************)
C16_DrainUnderLock ==
    [][\A s \in DOMAIN streams :
          (streams[s].pc \in {"loop", "pop"} /\ streams'[s].pc # streams[s].pc)
              => /\ subscription_lock = StreamName[s]
                 /\ streams'[s].pc = "pop" => subscription_lock' = StreamName[s]
      ]_vars

(***************************************************************************)
(* C17.  pending_requests holds a job's id, mapped to the submitting       *)
(* client id, exactly while the job is in flight: from its acceptance      *)
(* until its thread has ended; and it holds no id of a job never accepted. *)
(***************************************************************************)
InFlight(t) == threads[t].pc \notin EndedPcs

C17_RecordIffInFlight ==
    /\ \A t \in DOMAIN threads :
          InFlight(t) <=>
              /\ threads[t].request_id \in DOMAIN pending_requests
              /\ pending_requests[threads[t].request_id] = threads[t].client_id
    /\ \A request_id \in DOMAIN pending_requests :
          \E t \in DOMAIN threads : threads[t].request_id = request_id

(***************************************************************************)
(* C18.  notify_client for a client id that has no queue in subscriptions  *)
(* changes nothing in subscriptions and does not raise: the thread goes on *)
(* to its cleanup, and when it has finished its record is gone.            *)
(***************************************************************************)
Unknown(t) == threads[t].client_id \notin DOMAIN subscriptions

C18_UnknownClientNoOp ==
    /\ [][\A t \in DOMAIN threads :
            (/\ threads[t].pc = "notify_locked"
             /\ threads'[t].pc # "notify_locked"
             /\ Unknown(t))
                => /\ subscriptions' = subscriptions
                   /\ pending_requests' = pending_requests
                   /\ threads'[t].pc = "cleanup"]_vars
    /\ [](\A t \in DOMAIN threads :
            threads[t].notified > 0 =>
                /\ threads[t].pc \in {"cleanup", "cleanup_locked", "done"}
                /\ threads[t].pc = "done" =>
                       threads[t].request_id \notin DOMAIN pending_requests)

\* C18 witness: a thread whose client has no queue has called notify_client,
\* finished, and its record is gone.
C18_Witness ==
    \E t \in DOMAIN threads :
        /\ threads[t].pc = "done"
        /\ threads[t].notified = 1
        /\ Unknown(t)
        /\ threads[t].request_id \notin DOMAIN pending_requests

(***************************************************************************)
(* C19.  A generator whose client has disconnected eventually stops        *)
(* polling, whether the client left during an emission or while the        *)
(* generator was idle.                                                     *)
(***************************************************************************)
C19_DisconnectDetected ==
    \A s \in 1..MaxStreams :
        (s \in DOMAIN streams /\ ~streams[s].connected)
            ~> (s \in DOMAIN streams /\ streams[s].pc \in {"closed", "raised"})

====
